---- MODULE Spec2Model ----
(***************************************************************************)
(* License server (license_web_admin.py): the licenses table, the client  *)
(* endpoints check / activate / deactivate / heartbeat and the admin       *)
(* endpoints generate / block / unblock / unbind / delete.                 *)
(*                                                                         *)
(* A client handler of check / activate / deactivate runs a SELECT and,    *)
(* later, a separate UPDATE ... WHERE key = k; no transaction or row lock  *)
(* spans the two statements, so the handlers of concurrent requests        *)
(* interleave between them.  Each such handler is two steps here:          *)
(* Select (authentication, validation, the SELECT, the decision) and       *)
(* Update (the UPDATE, the commit, the response).  heartbeat and the admin *)
(* endpoints issue a single statement and are single steps.                *)
(***************************************************************************)
EXTENDS Integers, Sequences, FiniteSets, TLC

\* ------------------------------------------------------------------ bounds
MaxTime == 1
\* The clock's first value (later than Tolerance, as any real clock is).
StartTime == 1000

\* --------------------------------------------------------- program constants
Tolerance == 300

SECRET_KEY == "eb3aad213730b203eef01da1d9bbbc0c63070a008c2fba734999622ad9981479"

\* ------------------------------------------------------------------ values
\* SQL NULL / Python None of a text column or a request field.
NULL == "<NULL>"
\* SQL NULL of a timestamp column.
NoTime == -1

Keys == {"TS-A"}
\* device_id values a request may carry: missing (None) or a device's id.
Devices == {"dev1", "dev2"}
DeviceIds == {NULL} \cup Devices
\* device_info values a request may carry: missing (None) or a document.
DeviceInfos == {NULL, "host1"}
\* days values of a generate request (any JSON number; 0 or none: perpetual),
\* in units of the clock.
DaysChoices == {-1, 0, 1}
\* Two client requests may be in progress at a time.
Slots == {1, 2}

VARIABLES
    store,   \* the licenses table: key -> row, for the keys that have a row
    now,     \* the wall clock, whole seconds
    req      \* per request slot: the handler's position, locals and response

vars == <<store, now, req>>

\* ------------------------------------------------------------------- rows
\* The INSERT with the binding columns filled from the creating request.
NewRow_Bound(expires_at, t) ==
    [status |-> "active", created_at |-> t, expires_at |-> expires_at,
     device_id |-> "dev1", device_info |-> NULL, activated_at |-> t,
     last_check |-> NoTime, heartbeat_last |-> NoTime]

\* INSERT INTO licenses (key, expires_at, status) VALUES (?, ?, 'active');
\* created_at DEFAULT CURRENT_TIMESTAMP, every other column NULL.
NewRow(expires_at, t) ==
    [status |-> "active", created_at |-> t, expires_at |-> expires_at,
     device_id |-> NULL, device_info |-> NULL, activated_at |-> NoTime,
     last_check |-> NoTime, heartbeat_last |-> NoTime]

\* The value of `row` a handler sees when the SELECT returned nothing.
NoRow == [status |-> "none", created_at |-> NoTime, expires_at |-> NoTime,
          device_id |-> NULL, device_info |-> NULL, activated_at |-> NoTime,
          last_check |-> NoTime, heartbeat_last |-> NoTime]

\* SELECT * FROM licenses WHERE key = k; fetchone()
SelectRow(k) == IF k \in DOMAIN store THEN store[k] ELSE NoRow

\* Truthiness that takes only None as falsy.
Truthy_OnlyNone(v) == v # NULL
\* Python truthiness of a text value: None and '' are falsy.
Truthy(v) == v # NULL /\ v # ""

\* json.dumps(device_info): None becomes the text null, a document its text.
JsonDumps(v) == IF v = NULL THEN "null" ELSE "json:" \o v

\* license_info['expires_at'] and datetime.now() > expires
Expired(li, t) == li.expires_at # NoTime /\ t > li.expires_at

\* --------------------------------------------------------- authentication
\* hashlib.sha256(...).hexdigest(), taken as injective.
Sha256(x) == <<"sha256", x>>

\* data_copy without 'signature', 'timestamp', 'nonce'; json.dumps(sort_keys=True)
\* of it is determined by the remaining fields and their values.
SignedFields_KeepsTimestamp(data) ==
    [f \in (DOMAIN data) \ {"signature", "nonce"} |-> data[f]]
SignedFields(data) ==
    [f \in (DOMAIN data) \ {"signature", "timestamp", "nonce"} |-> data[f]]

\* sha256(sha256(data_str + secret) + secret)
Sign(data, secret) ==
    Sha256(<<Sha256(<<SignedFields(data), secret>>), secret>>)

verify_signature_OtherSecret(data, signature) == Sign(data, "guess") = signature
verify_signature(data, signature) == Sign(data, SECRET_KEY) = signature

Abs(x) == IF x < 0 THEN -x ELSE x

check_timestamp_Inclusive(timestamp, current_time) ==
    Abs(current_time - timestamp) <= Tolerance
check_timestamp(timestamp, current_time) ==
    Abs(current_time - timestamp) < Tolerance

\* --------------------------------------------------------------- responses
\* jsonify({...}), status: the HTTP status, valid/success, the message and,
\* for a successful check, the echoed expiry.
\* expires_str of check_license: None for a NULL expires_at, else the
\* timestamp's text (the stored string, or datetime.isoformat()).
Isoformat(expires_at) ==
    IF expires_at = NoTime THEN NULL ELSE "T" \o ToString(expires_at)

Resp(http, ok, msg) == [http |-> http, ok |-> ok, msg |-> msg, expires |-> NULL]

NoResp == Resp(0, FALSE, "")

RespStale == Resp(403, FALSE, "stale_request")
RespBadSignature == Resp(403, FALSE, "bad_signature")
RespNoKey == Resp(400, FALSE, "key_not_given")
RespServerError == Resp(500, FALSE, "server_error")
RespNotFound == Resp(200, FALSE, "key_not_found")
RespBlocked == Resp(200, FALSE, "key_blocked")

\* ---------------------------------------------------------------- handlers
\* What a handler decides from the row it selected: the UPDATE it will issue
\* ("none": it returns without one) and the response it will give.
Decision(write, resp) == [write |-> write, resp |-> resp]

\* check_license answering without the expiry date.
CheckDecide_NoEcho(license_info, device_id, t) ==
    IF license_info = NoRow THEN Decision("none", RespNotFound)
    ELSE IF license_info.status = "blocked" THEN Decision("none", RespBlocked)
    ELSE IF Expired(license_info, t)
        THEN Decision("block", Resp(200, FALSE, "expired_and_blocked"))
    ELSE IF Truthy(license_info.device_id) /\ license_info.device_id # device_id
        THEN Decision("none", Resp(200, FALSE, "bound_to_other_device"))
    ELSE Decision("last_check", Resp(200, TRUE, "license_active"))

\* check_license without the comparison of the stored device_id.
CheckDecide_NoDeviceCheck(license_info, device_id, t) ==
    IF license_info = NoRow THEN Decision("none", RespNotFound)
    ELSE IF license_info.status = "blocked" THEN Decision("none", RespBlocked)
    ELSE IF Expired(license_info, t)
        THEN Decision("block", Resp(200, FALSE, "expired_and_blocked"))
    ELSE Decision("last_check",
                  [Resp(200, TRUE, "license_active")
                      EXCEPT !.expires = Isoformat(license_info.expires_at)])

\* check_license with the expiry branch storing expired, as activate does.
CheckDecide_StoresExpired(license_info, device_id, t) ==
    IF license_info = NoRow THEN Decision("none", RespNotFound)
    ELSE IF license_info.status = "blocked" THEN Decision("none", RespBlocked)
    ELSE IF Expired(license_info, t)
        THEN Decision("expire", Resp(200, FALSE, "expired_and_blocked"))
    ELSE IF Truthy(license_info.device_id) /\ license_info.device_id # device_id
        THEN Decision("none", Resp(200, FALSE, "bound_to_other_device"))
    ELSE Decision("last_check",
                  [Resp(200, TRUE, "license_active")
                      EXCEPT !.expires = Isoformat(license_info.expires_at)])

\* check_license without the expiry branch.
CheckDecide_NoExpiry(license_info, device_id, t) ==
    IF license_info = NoRow THEN Decision("none", RespNotFound)
    ELSE IF license_info.status = "blocked" THEN Decision("none", RespBlocked)
    ELSE IF Truthy(license_info.device_id) /\ license_info.device_id # device_id
        THEN Decision("none", Resp(200, FALSE, "bound_to_other_device"))
    ELSE Decision("last_check",
                  [Resp(200, TRUE, "license_active")
                      EXCEPT !.expires = Isoformat(license_info.expires_at)])

\* check_license, from the fetched row to the statement it issues.
CheckDecide(license_info, device_id, t) ==
    IF license_info = NoRow THEN Decision("none", RespNotFound)
    ELSE IF license_info.status = "blocked" THEN Decision("none", RespBlocked)
    ELSE IF Expired(license_info, t)
        THEN Decision("block", Resp(200, FALSE, "expired_and_blocked"))
    ELSE IF Truthy(license_info.device_id) /\ license_info.device_id # device_id
        THEN Decision("none", Resp(200, FALSE, "bound_to_other_device"))
    ELSE Decision("last_check",
                  [Resp(200, TRUE, "license_active")
                      EXCEPT !.expires = Isoformat(license_info.expires_at)])

\* activate_license without the comparison of the stored device_id.
ActivateDecide_NoDeviceCheck(license_info, device_id, t) ==
    IF license_info = NoRow THEN Decision("none", RespNotFound)
    ELSE IF license_info.status = "blocked" THEN Decision("none", RespBlocked)
    ELSE IF Expired(license_info, t)
        THEN Decision("expire", Resp(200, FALSE, "license_expired"))
    ELSE Decision("bind", Resp(200, TRUE, "key_activated"))

\* activate_license without the test of the stored status.
ActivateDecide_IgnoresBlocked(license_info, device_id, t) ==
    IF license_info = NoRow THEN Decision("none", RespNotFound)
    ELSE IF Expired(license_info, t)
        THEN Decision("expire", Resp(200, FALSE, "license_expired"))
    ELSE IF Truthy(license_info.device_id) /\ license_info.device_id # device_id
        THEN Decision("none", Resp(200, FALSE, "already_bound_to_other_device"))
    ELSE Decision("bind", Resp(200, TRUE, "key_activated"))

\* activate_license without the expiry branch.
ActivateDecide_NoExpiry(license_info, device_id, t) ==
    IF license_info = NoRow THEN Decision("none", RespNotFound)
    ELSE IF license_info.status = "blocked" THEN Decision("none", RespBlocked)
    ELSE IF Truthy(license_info.device_id) /\ license_info.device_id # device_id
        THEN Decision("none", Resp(200, FALSE, "already_bound_to_other_device"))
    ELSE Decision("bind", Resp(200, TRUE, "key_activated"))

\* activate_license, from the fetched row to the statement it issues.
ActivateDecide(license_info, device_id, t) ==
    IF license_info = NoRow THEN Decision("none", RespNotFound)
    ELSE IF license_info.status = "blocked" THEN Decision("none", RespBlocked)
    ELSE IF Expired(license_info, t)
        THEN Decision("expire", Resp(200, FALSE, "license_expired"))
    ELSE IF Truthy(license_info.device_id) /\ license_info.device_id # device_id
        THEN Decision("none", Resp(200, FALSE, "already_bound_to_other_device"))
    ELSE Decision("bind", Resp(200, TRUE, "key_activated"))

\* deactivate_license without the comparison of the stored device_id.
DeactivateDecide_NoDeviceCheck(license_info, device_id, t) ==
    IF license_info = NoRow THEN Decision("none", RespNotFound)
    ELSE Decision("block", Resp(200, TRUE, "key_blocked"))

\* deactivate_license with an expiry branch like activate's.
DeactivateDecide_WithExpiry(license_info, device_id, t) ==
    IF license_info = NoRow THEN Decision("none", RespNotFound)
    ELSE IF Expired(license_info, t)
        THEN Decision("expire", Resp(200, FALSE, "license_expired"))
    ELSE IF Truthy(license_info.device_id) /\ license_info.device_id # device_id
        THEN Decision("none", Resp(200, FALSE, "bound_to_other_device"))
    ELSE Decision("block", Resp(200, TRUE, "key_blocked"))

\* deactivate_license with the status test that check and activate have.
DeactivateDecide_RefusesBlocked(license_info, device_id, t) ==
    IF license_info = NoRow THEN Decision("none", RespNotFound)
    ELSE IF license_info.status = "blocked" THEN Decision("none", RespBlocked)
    ELSE IF Truthy(license_info.device_id) /\ license_info.device_id # device_id
        THEN Decision("none", Resp(200, FALSE, "bound_to_other_device"))
    ELSE Decision("block", Resp(200, TRUE, "key_blocked"))

\* deactivate_license, from the fetched row to the statement it issues.
DeactivateDecide(license_info, device_id, t) ==
    IF license_info = NoRow THEN Decision("none", RespNotFound)
    ELSE IF Truthy(license_info.device_id) /\ license_info.device_id # device_id
        THEN Decision("none", Resp(200, FALSE, "bound_to_other_device"))
    ELSE Decision("block", Resp(200, TRUE, "key_blocked"))

Decide(op, license_info, device_id, t) ==
    CASE op = "check" -> CheckDecide(license_info, device_id, t)
      [] op = "activate" -> ActivateDecide(license_info, device_id, t)
      [] op = "deactivate" -> DeactivateDecide(license_info, device_id, t)

\* The row after UPDATE licenses SET ... WHERE key = k, by statement.
SetBlocked_DropsBinding(row) ==
    [row EXCEPT !.status = "blocked", !.device_id = NULL, !.device_info = NULL,
                !.activated_at = NoTime]
SetBlocked(row) == [row EXCEPT !.status = "blocked"]
SetExpired_Lapsed(row) == [row EXCEPT !.status = "lapsed"]
SetExpired(row) == [row EXCEPT !.status = "expired"]
\* api_unblock that also lifts the term.
SetActive_Renews(row) == [row EXCEPT !.status = "active", !.expires_at = NoTime]
\* api_unblock that also releases the device.
SetActive_Unbinds(row) ==
    [row EXCEPT !.status = "active", !.device_id = NULL, !.device_info = NULL,
                !.activated_at = NoTime]
SetActive(row) == [row EXCEPT !.status = "active"]
SetBinding_WithoutTimestamp(row, device_id, device_info, t) ==
    [row EXCEPT !.device_id = device_id,
                !.device_info = JsonDumps(device_info),
                !.status = "active"]
SetBinding(row, device_id, device_info, t) ==
    [row EXCEPT !.device_id = device_id,
                !.device_info = JsonDumps(device_info),
                !.activated_at = t,
                !.status = "active"]
SetLastCheck(row, t) == [row EXCEPT !.last_check = t]
SetHeartbeat(row, t) == [row EXCEPT !.heartbeat_last = t]
ClearBinding(row) ==
    [row EXCEPT !.device_id = NULL, !.device_info = NULL, !.activated_at = NoTime]

ApplyWrite(row, write, device_id, device_info, t) ==
    CASE write = "block" -> SetBlocked(row)
      [] write = "expire" -> SetExpired(row)
      [] write = "bind" -> SetBinding(row, device_id, device_info, t)
      [] write = "last_check" -> SetLastCheck(row, t)
      [] OTHER -> row

\* The UPDATE as an upsert: a row is made when none has the key.
UpdateWhereKey_Upsert(table, k, write, device_id, device_info, t) ==
    IF k \in DOMAIN table
        THEN [table EXCEPT ![k] = ApplyWrite(table[k], write, device_id, device_info, t)]
        ELSE (k :> ApplyWrite(NewRow(NoTime, t), write, device_id, device_info, t))
             @@ table

\* UPDATE licenses SET ... WHERE key = k: the table after it (no row: no change).
UpdateWhereKey(table, k, write, device_id, device_info, t) ==
    IF k \in DOMAIN table
        THEN [table EXCEPT ![k] = ApplyWrite(table[k], write, device_id, device_info, t)]
        ELSE table

\* ---------------------------------------------------------- request slots
\* A slot holds one client request: pc is "idle" (none), "update" (the SELECT
\* is done, the UPDATE is pending) or "done" (responded: the response is
\* shown in the state that follows the responding step and is dropped by the
\* next step).  race and peer record how the request ran, for the statements
\* about concurrency: "solo" (no statement by anyone else on its key since its
\* SELECT), "raced" (exactly one other request, peer, ran between its SELECT
\* and its UPDATE on the same key, and nothing else touched the row) or
\* "spoiled" (anything else).  A raced request keeps the row it read
\* (license_info), the time of its decision (t) and of its UPDATE (tw) until
\* its peer has responded.
IdleSlot ==
    [pc |-> "idle", op |-> "none", key |-> NULL, device_id |-> NULL,
     device_info |-> NULL, license_info |-> NoRow, t |-> NoTime,
     tw |-> NoTime, write |-> "none", resp |-> NoResp, race |-> "solo",
     peer |-> 0]

Mutual(rq, a, b) ==
    /\ a \in Slots /\ b \in Slots /\ a # b
    /\ rq[a].race = "raced" /\ rq[b].race = "raced"
    /\ rq[a].peer = b /\ rq[b].peer = a

\* The slots without the responses already shown: a response stays only
\* while the request's peer is still to respond.
Kept ==
    [o \in Slots |->
        IF req[o].pc = "done"
           /\ ~(\E b \in Slots : Mutual(req, o, b) /\ req[b].pc = "update")
            THEN IdleSlot
            ELSE req[o]]

InFlightOn(k, s) == {o \in Slots \ {s} : req[o].pc = "update" /\ req[o].key = k}

\* How the request starting in slot s on key k ran so far.
StartRace(s, k) ==
    IF InFlightOn(k, s) = {} THEN "solo"
    ELSE IF \E o \in Slots : InFlightOn(k, s) = {o} /\ req[o].race = "solo"
        THEN "raced"
    ELSE "spoiled"

StartPeer(s, k) ==
    IF StartRace(s, k) = "raced" THEN CHOOSE o \in Slots : InFlightOn(k, s) = {o}
    ELSE 0

Spoil(r) ==
    [r EXCEPT !.race = "spoiled", !.peer = 0, !.license_info = NoRow,
              !.t = NoTime, !.tw = NoTime]

\* The other slots' records once slot s starts a request on key k.
Joined(s, k, o) ==
    IF o \in InFlightOn(k, s)
        THEN IF StartRace(s, k) = "raced"
                THEN [Kept[o] EXCEPT !.race = "raced", !.peer = s]
                ELSE Spoil(Kept[o])
        ELSE IF Kept[o].pc = "done" THEN Spoil(Kept[o]) ELSE Kept[o]

\* The slots' records once a statement has written to key k: the other
\* requests on k no longer ran alone or as a pair.  `except` are the slots
\* the statement belongs to.
Spoiled(k, except) ==
    [o \in Slots |->
        IF o \notin except /\ Kept[o].pc # "idle" /\ Kept[o].key = k
            THEN Spoil(Kept[o])
            ELSE Kept[o]]

\* The pair a raced request belongs to.
Pair(s) == {s} \cup {b \in Slots : Mutual(req, s, b)}

\* A request that did not race keeps neither the row it read nor its times
\* once it has responded.
Forget(r) ==
    IF r.pc = "done" /\ r.race # "raced"
        THEN [r EXCEPT !.license_info = NoRow, !.t = NoTime, !.tw = NoTime]
        ELSE r

\* ------------------------------------------------------------------ actions
Init ==
    /\ store = << >>
    /\ now = StartTime
    /\ req = [s \in Slots |-> IdleSlot]

\* The clock advances.
Tick ==
    /\ now < StartTime + MaxTime
    /\ now' = now + 1
    /\ req' = Kept
    /\ UNCHANGED store

\* The request body a client sends.
Payload(op, key, device_id, device_info, timestamp) ==
    IF op = "activate"
        THEN [key |-> key, device_id |-> device_id, device_info |-> device_info,
              timestamp |-> timestamp]
        ELSE [key |-> key, device_id |-> device_id, timestamp |-> timestamp]

\* The handlers' first returns without the test of the connection.
Rejection_IgnoresConnection(data, signature, db_up) ==
    IF ~check_timestamp(data.timestamp, now) THEN RespStale
    ELSE IF ~verify_signature(data, signature) THEN RespBadSignature
    ELSE IF ~Truthy(data.key) THEN RespNoKey
    ELSE NoResp

\* The handlers' first returns without the comparison of the signature.
Rejection_NoSignatureCheck(data, signature, db_up) ==
    IF ~check_timestamp(data.timestamp, now) THEN RespStale
    ELSE IF ~Truthy(data.key) THEN RespNoKey
    ELSE IF ~db_up THEN RespServerError
    ELSE NoResp

\* The response of a handler that returns before it touches the store, or
\* NoResp when it goes on to the SELECT.
Rejection(data, signature, db_up) ==
    IF ~check_timestamp(data.timestamp, now) THEN RespStale
    ELSE IF ~verify_signature(data, signature) THEN RespBadSignature
    ELSE IF ~Truthy(data.key) THEN RespNoKey
    ELSE IF ~db_up THEN RespServerError
    ELSE NoResp

\* check_license / activate_license / deactivate_license up to the decision:
\* authentication, the key check, the connection, the SELECT, the branch.
Select(s, op, key, device_id, device_info, timestamp, secret, db_up) ==
    LET data == Payload(op, key, device_id, device_info, timestamp)
        rej == Rejection(data, Sign(data, secret), db_up)
        license_info == SelectRow(key)
        d == Decide(op, license_info, device_id, now)
        mine == [IdleSlot EXCEPT !.pc = "done", !.op = op, !.key = key,
                                 !.device_id = device_id,
                                 !.device_info = device_info, !.resp = rej]
    IN  /\ req[s].pc # "update"
        /\ IF rej # NoResp
              THEN req' = [Kept EXCEPT ![s] = mine]
              ELSE req' = [o \in Slots |->
                      IF o = s
                        THEN Forget([mine EXCEPT
                                !.pc = IF d.write = "none" THEN "done" ELSE "update",
                                !.license_info = license_info,
                                !.t = now,
                                !.write = d.write,
                                !.resp = d.resp,
                                !.race = StartRace(s, key),
                                !.peer = StartPeer(s, key)])
                        ELSE Joined(s, key, o)]
        /\ UNCHANGED <<store, now>>

\* The UPDATE behind a lock on the key that a request takes only when no
\* other request on the key is between its SELECT and its UPDATE.
Update_WaitsForKey(s) ==
    /\ req[s].pc = "update"
    /\ InFlightOn(req[s].key, s) = {}
    /\ store' = UpdateWhereKey(store, req[s].key, req[s].write,
                               req[s].device_id, req[s].device_info, now)
    /\ req' = [o \in Slots |->
                IF o = s THEN Forget([req[s] EXCEPT !.pc = "done", !.tw = now])
                ELSE IF o \in Pair(s) THEN req[o]
                ELSE Spoiled(req[s].key, {s})[o]]
    /\ UNCHANGED now

\* The handler's UPDATE, commit and response.
Update(s) ==
    /\ req[s].pc = "update"
    /\ store' = UpdateWhereKey(store, req[s].key, req[s].write,
                               req[s].device_id, req[s].device_info, now)
    /\ req' = [o \in Slots |->
                IF o = s THEN Forget([req[s] EXCEPT !.pc = "done", !.tw = now])
                ELSE IF o \in Pair(s) THEN req[o]
                ELSE Spoiled(req[s].key, {s})[o]]
    /\ UNCHANGED now

\* heartbeat: authentication, the connection, one UPDATE ... WHERE key = k AND
\* device_id = d (a NULL on either side matches nothing), the response.
HeartbeatTable_AnyKey(table, k, device_id, t) ==
    [x \in DOMAIN table |->
        IF device_id # NULL /\ table[x].device_id = device_id
            THEN SetHeartbeat(table[x], t)
            ELSE table[x]]

HeartbeatTable_KeyOnly(table, k, device_id, t) ==
    [x \in DOMAIN table |->
        IF x = k THEN SetHeartbeat(table[x], t) ELSE table[x]]

HeartbeatTable(table, k, device_id, t) ==
    [x \in DOMAIN table |->
        IF x = k /\ device_id # NULL /\ table[x].device_id = device_id
            THEN SetHeartbeat(table[x], t)
            ELSE table[x]]

RejectionHeartbeat(data, signature, db_up) ==
    IF ~check_timestamp(data.timestamp, now) THEN RespStale
    ELSE IF ~verify_signature(data, signature) THEN RespBadSignature
    ELSE IF ~db_up THEN RespServerError
    ELSE NoResp

Heartbeat(s, key, device_id, timestamp, secret, db_up) ==
    LET data == Payload("heartbeat", key, device_id, NULL, timestamp)
        rej == RejectionHeartbeat(data, Sign(data, secret), db_up)
        mine == [IdleSlot EXCEPT !.pc = "done", !.op = "heartbeat", !.key = key,
                                 !.device_id = device_id, !.resp = rej]
    IN  /\ req[s].pc # "update"
        /\ IF rej # NoResp
              THEN /\ req' = [Kept EXCEPT ![s] = mine]
                   /\ store' = store
              ELSE /\ store' = HeartbeatTable(store, key, device_id, now)
                   /\ req' = [Spoiled(key, {s}) EXCEPT
                                ![s] = [mine EXCEPT !.write = "heartbeat",
                                                    !.resp = Resp(200, TRUE, "")]]
        /\ UNCHANGED now

\* api_generate: key = "TS-" + 16 hex digits at random; a key that is already
\* stored violates UNIQUE and the INSERT raises (response 500, nothing stored).
GenerateTable(table, key, days, t) ==
    IF key \in DOMAIN table
        THEN table
        ELSE (key :> NewRow(IF days # 0 THEN t + days ELSE NoTime, t)) @@ table

Generate(key, days) ==
    /\ store' = GenerateTable(store, key, days, now)
    /\ req' = Spoiled(key, {})
    /\ UNCHANGED now

\* api_unblock that restores only a blocked license (an expired one stays).
AdminUpdate_UnblockOnlyBlocked(key, statement) ==
    /\ store' = [x \in DOMAIN store |->
                    IF x # key THEN store[x]
                    ELSE CASE statement = "block" -> SetBlocked(store[x])
                           [] statement = "unblock" ->
                                IF store[x].status = "blocked"
                                    THEN SetActive(store[x]) ELSE store[x]
                           [] OTHER -> ClearBinding(store[x])]
    /\ req' = Spoiled(key, {})
    /\ UNCHANGED now

\* A single UPDATE licenses SET ... WHERE key = k of an admin endpoint.
AdminUpdateTable(table, key, statement) ==
    [x \in DOMAIN table |->
        IF x # key THEN table[x]
        ELSE CASE statement = "block" -> SetBlocked(table[x])
               [] statement = "unblock" -> SetActive(table[x])
               [] OTHER -> ClearBinding(table[x])]

AdminUpdate(key, statement) ==
    /\ store' = AdminUpdateTable(store, key, statement)
    /\ req' = Spoiled(key, {})
    /\ UNCHANGED now

Block(key) == AdminUpdate(key, "block")
Unblock(key) == AdminUpdate(key, "unblock")
Unbind(key) == AdminUpdate(key, "unbind")

\* api_delete: DELETE FROM licenses WHERE key = k
DeleteTable(table, key) == [x \in (DOMAIN table) \ {key} |-> table[x]]

Delete(key) ==
    /\ store' = DeleteTable(store, key)
    /\ req' = Spoiled(key, {})
    /\ UNCHANGED now

ClientOps == {"check", "activate", "deactivate"}

\* What may be wrong with a request or its environment: nothing, a timestamp
\* outside the window, a signature made without the secret, no key, no
\* connection to the store.
Faults == {"none", "stale", "forged", "no_key", "db_down"}
TimestampOf(fault) == IF fault = "stale" THEN now - Tolerance ELSE now
SecretOf(fault) == IF fault = "forged" THEN "guess" ELSE SECRET_KEY

\* The client requests of the slots S, with the inputs drawn from the given
\* sets (a request that is rejected before the SELECT carries one fixed
\* device_id: the rejection does not depend on it).
Requests(S, ids, infos, faults) ==
    \E s \in S, op \in ClientOps, k \in Keys, device_id \in ids,
       device_info \in infos, fault \in faults :
        /\ op # "activate" => device_info = NULL
        /\ fault # "none" => (device_id = "dev1" /\ device_info = NULL)
        /\ Select(s, op, IF fault = "no_key" THEN NULL ELSE k, device_id,
                  device_info, TimestampOf(fault), SecretOf(fault),
                  fault # "db_down")

Updates(S) == \E s \in S : Update(s)

Heartbeats(S, ids, faults) ==
    \E s \in S, k \in Keys, device_id \in ids, fault \in faults :
        /\ fault # "none" => device_id = "dev1"
        /\ Heartbeat(s, IF fault = "no_key" THEN NULL ELSE k, device_id,
                     TimestampOf(fault), SecretOf(fault), fault # "db_down")

Admin ==
    \/ \E key \in Keys, days \in DaysChoices : Generate(key, days)
    \/ \E key \in Keys : Block(key)
    \/ \E key \in Keys : Unblock(key)
    \/ \E key \in Keys : Unbind(key)
    \/ \E key \in Keys : Delete(key)

\* One client request at a time; the admin endpoints and the clock may act
\* between a handler's SELECT and its UPDATE.
Next ==
    \/ Tick
    \/ Requests({1}, DeviceIds, DeviceInfos, {"none"})
    \/ Updates({1})
    \/ Heartbeats({1}, DeviceIds, {"none"})
    \/ Admin

Spec == Init /\ [][Next]_vars

\* Two client requests at a time, from the two devices.
NextRace ==
    \/ Tick
    \/ Requests(Slots, Devices, {"host1"}, {"none"})
    \/ Updates(Slots)
    \/ Admin

SpecRace == Init /\ [][NextRace]_vars

\* Two client requests of any kind at a time (no device_info: the handlers
\* do not branch on it), with the admin endpoints and
\* the clock, under fair scheduling: a handler that has done its SELECT is a
\* running thread with no lock to wait for, so its UPDATE and response are
\* not postponed for ever.
NextFair ==
    \/ Tick
    \/ Requests(Slots, {"dev1"}, {NULL}, {"none"})
    \/ Updates(Slots)
    \/ Admin

SpecFair == Init /\ [][NextFair]_vars /\ \A s \in Slots : WF_vars(Update(s))

\* One client request at a time whose device_id may be missing or the empty
\* text.
BlankIds == {NULL, "", "dev1"}

NextBlank ==
    \/ Tick
    \/ Requests({1}, BlankIds, DeviceInfos, {"none"})
    \/ Updates({1})
    \/ Admin

SpecBlank == Init /\ [][NextBlank]_vars

\* One client request at a time, from one device, that may be stale, carry a
\* forged signature or no key, or find the store unreachable.
NextFaults ==
    \/ Tick
    \/ Requests({1}, {"dev1"}, DeviceInfos, Faults)
    \/ Updates({1})
    \/ Heartbeats({1}, {"dev1"}, Faults)
    \/ Admin

SpecFaults == Init /\ [][NextFaults]_vars

\* A handler that is cut short between its SELECT and its commit (an
\* exception, a timeout): the except branch answers with the server error and
\* nothing is committed; a statement already sent is rolled back with the
\* connection.
Abandon(s) ==
    /\ req[s].pc = "update"
    /\ req' = [Kept EXCEPT ![s] = Forget([req[s] EXCEPT !.pc = "done",
                                                        !.resp = RespServerError])]
    /\ UNCHANGED <<store, now>>

\* One client request at a time, which may be cut short.
NextAbandon ==
    \/ Tick
    \/ Requests({1}, DeviceIds, DeviceInfos, {"none"})
    \/ Updates({1})
    \/ Abandon(1)
    \/ Admin

SpecAbandon == Init /\ [][NextAbandon]_vars

\* Two licenses, one client request at a time, from one device.
TwoKeys == {"TS-A", "TS-B"}

NextKeys ==
    \/ \E k \in TwoKeys, op \in ClientOps :
            Select(1, op, k, "dev1", IF op = "activate" THEN "host1" ELSE NULL,
                   now, SECRET_KEY, TRUE)
    \/ Update(1)
    \/ \E k \in TwoKeys : Heartbeat(1, k, "dev1", now, SECRET_KEY, TRUE)
    \/ \E k \in TwoKeys, days \in DaysChoices : Generate(k, days)
    \/ \E k \in TwoKeys : Block(k)
    \/ \E k \in TwoKeys : Unblock(k)
    \/ \E k \in TwoKeys : Unbind(k)
    \/ \E k \in TwoKeys : Delete(k)

SpecKeys == Init /\ [][NextKeys]_vars

\* ------------------------------------------- verify_signature, check_timestamp
\* The two functions called on their own.  A slot then holds one call: the
\* arguments and the value returned.
CodecTimestamps == {StartTime, StartTime + 1}
Nonces == {"n1", "n2"}

\* Request bodies: key, device_id and timestamp, with or without a nonce,
\* and with or without a signature field left in the body.
BasePayloads == [key : Keys, device_id : Devices, timestamp : CodecTimestamps]
WithNonce(P) == {p @@ [nonce |-> n] : p \in P, n \in Nonces}
WithSignature(P) == {p @@ [signature |-> "sig"] : p \in P}
CodecPayloads ==
    LET P == BasePayloads \cup WithNonce(BasePayloads)
    IN  P \cup WithSignature(P)

\* Signatures a caller may present: made with the secret or with a guess.
CodecSignatures ==
    {Sign(p, k) : p \in CodecPayloads, k \in {SECRET_KEY, "guess"}}

\* Timestamps a caller may present, around the edges of the window.
TimestampOffsets ==
    {0 - Tolerance - 1, 0 - Tolerance, 1 - Tolerance, 0,
     Tolerance - 1, Tolerance, Tolerance + 1}

InitCodec ==
    /\ store = << >>
    /\ now \in {StartTime, StartTime + MaxTime}
    /\ req = [s \in Slots |-> IdleSlot]

VerifySignature(s, data, signature) ==
    /\ req' = [req EXCEPT ![s] =
                [pc |-> "done", op |-> "verify_signature", data |-> data,
                 signature |-> signature,
                 result |-> verify_signature(data, signature)]]
    /\ UNCHANGED <<store, now>>

CheckTimestamp(s, timestamp) ==
    /\ req' = [req EXCEPT ![s] =
                [pc |-> "done", op |-> "check_timestamp",
                 timestamp |-> timestamp,
                 result |-> check_timestamp(timestamp, now)]]
    /\ UNCHANGED <<store, now>>

NextCodec ==
    \/ \E s \in Slots, data \in CodecPayloads, signature \in CodecSignatures :
            VerifySignature(s, data, signature)
    \/ \E s \in Slots, d \in TimestampOffsets : CheckTimestamp(s, now + d)

SpecCodec == InitCodec /\ [][NextCodec]_vars

\* ------------------------------------------------------- the admin session
\* In SpecAdmin the slots are browser sessions and the requests are the admin
\* panel's: req[s] holds the session of browser s and, until the next
\* request, the route and the response of its last request.
ADMIN_PASSWORD == "admin123"
ADMIN_WHITELIST_ENABLED == TRUE
ADMIN_WHITELIST == {"127.0.0.1", "::1", "localhost"}

\* An address as the server receives it, cut at its colons: the parts of
\* "127.0.0.1:5000" are "127.0.0.1" and "5000", those of "::1" are "", "", "1".
Local == <<"127.0.0.1">>
LocalWithPort == <<"127.0.0.1", "5000">>
Outside == <<"10.0.0.9">>
Loopback6 == <<"", "", "1">>

\* The text of an address: its parts joined by colons.
RECURSIVE AddrText(_)
AddrText(a) ==
    IF Len(a) = 1 THEN a[1] ELSE a[1] \o ":" \o AddrText(Tail(a))

\* if ':' in client_ip and not client_ip.startswith('['): split(':')[0]
StripPort(a) == IF Len(a) > 1 THEN <<a[1]>> ELSE a

\* What a request carries about where it comes from: the peer address, and
\* the X-Forwarded-For, X-Real-IP and X-Vercel-Forwarded-For headers (NULL:
\* not sent; the forwarded headers are comma lists of addresses).
Hdr(remote_addr, forwarded_for, real_ip, vercel_ip) ==
    [remote_addr |-> remote_addr, forwarded_for |-> forwarded_for,
     real_ip |-> real_ip, vercel_ip |-> vercel_ip]

Headers ==
    {Hdr(Local, NULL, NULL, NULL),
     Hdr(Outside, NULL, NULL, NULL),
     Hdr(Loopback6, NULL, NULL, NULL),
     Hdr(Local, <<Outside, Local>>, NULL, NULL),
     Hdr(Outside, <<LocalWithPort>>, NULL, NULL),
     Hdr(Local, <<Local>>, Outside, NULL),
     Hdr(Outside, <<Outside>>, Outside, <<Local>>)}

\* The address check_ip_whitelist takes as the client's.
ClientAddress(hdr) ==
    LET a0 == hdr.remote_addr
        a1 == IF hdr.forwarded_for # NULL THEN Head(hdr.forwarded_for) ELSE a0
        a2 == IF hdr.real_ip # NULL THEN hdr.real_ip ELSE a1
        a3 == IF hdr.vercel_ip # NULL THEN Head(hdr.vercel_ip) ELSE a2
    IN  StripPort(a3)

check_ip_whitelist(hdr) ==
    IF ~ADMIN_WHITELIST_ENABLED THEN TRUE
    ELSE IF ADMIN_WHITELIST = {} THEN TRUE
    ELSE AddrText(ClientAddress(hdr)) \in ADMIN_WHITELIST

\* require_login without the test of the session.
require_login_NoSession(session, hdr) ==
    IF ~check_ip_whitelist(hdr) THEN "forbidden" ELSE "call"

\* require_login: what the decorator does with a request.
require_login(session, hdr) ==
    IF ~check_ip_whitelist(hdr) THEN "forbidden"
    ELSE IF "admin_logged_in" \notin session THEN "redirect"
    ELSE "call"

\* Responses of the admin panel: status and, for a redirect, where to.
Answer(http, location) == [http |-> http, location |-> location]
NoAnswer == Answer(0, NULL)
Forbidden == Answer(403, NULL)
RedirectLogin == Answer(302, "login")
RedirectIndex == Answer(302, "index")

NewSession == [pc |-> "session", session |-> {}, route |-> "none",
               resp |-> NoAnswer]

InitAdmin ==
    /\ store = << >>
    /\ now = StartTime
    /\ req = [s \in Slots |-> NewSession]

\* The sessions without the responses already shown.
Shown == [o \in Slots |-> [req[o] EXCEPT !.route = "none", !.resp = NoAnswer]]

\* login: the whitelist, then on a POST the password.
Login(s, method, password, hdr) ==
    /\ req' = [Shown EXCEPT ![s] =
                 IF ~check_ip_whitelist(hdr)
                     THEN [@ EXCEPT !.route = "login", !.resp = Forbidden]
                 ELSE IF method = "POST" /\ password = ADMIN_PASSWORD
                     THEN [@ EXCEPT !.route = "login",
                                    !.session = @ \cup {"admin_logged_in"},
                                    !.resp = RedirectIndex]
                 ELSE [@ EXCEPT !.route = "login", !.resp = Answer(200, NULL)]]
    /\ UNCHANGED <<store, now>>

\* logout: session.pop('admin_logged_in', None); redirect to login.
Logout(s) ==
    /\ req' = [Shown EXCEPT ![s] = [@ EXCEPT !.route = "logout",
                                           !.session = @ \ {"admin_logged_in"},
                                           !.resp = RedirectLogin]]
    /\ UNCHANGED <<store, now>>

AdminRoutes == {"generate", "licenses", "block", "unblock", "unbind", "delete"}

\* The table after the handler of an admin route has run.
AdminTable(table, route, key, days, t) ==
    CASE route = "generate" -> GenerateTable(table, key, days, t)
      [] route = "licenses" -> table
      [] route = "delete" -> DeleteTable(table, key)
      [] OTHER -> AdminUpdateTable(table, key, route)

\* The status the handler of an admin route answers with.
AdminStatus(table, route, key) ==
    CASE route = "generate" -> IF key \in DOMAIN table THEN 500 ELSE 200
      [] route = "delete" -> IF key \in DOMAIN table THEN 200 ELSE 404
      [] OTHER -> 200

\* A request to an admin route: require_login, then the handler.
AdminRequest(s, route, key, days, hdr) ==
    LET gate == require_login(req[s].session, hdr)
    IN  /\ store' = IF gate = "call"
                      THEN AdminTable(store, route, key, days, now)
                      ELSE store
        /\ req' = [Shown EXCEPT ![s] =
                     [@ EXCEPT !.route = route,
                               !.resp = CASE gate = "forbidden" -> Forbidden
                                          [] gate = "redirect" -> RedirectLogin
                                          [] OTHER ->
                                               Answer(AdminStatus(store, route, key),
                                                      NULL)]]
        /\ UNCHANGED now

Passwords == {ADMIN_PASSWORD, "guess", NULL}

NextAdmin ==
    \/ Tick
    \/ \E s \in Slots, method \in {"GET", "POST"}, password \in Passwords,
          hdr \in Headers :
            /\ method = "GET" => password = NULL
            /\ Login(s, method, password, hdr)
    \/ \E s \in Slots : Logout(s)
    \/ \E s \in Slots, route \in AdminRoutes, key \in Keys,
          days \in DaysChoices, hdr \in Headers :
            /\ route # "generate" => days = 0
            /\ AdminRequest(s, route, key, days, hdr)

SpecAdmin == InitAdmin /\ [][NextAdmin]_vars

\* ------------------------------------------------- reading a step or a state
\* The row of key k in the next state (NoRow: none).
SelectRowAfter(k) == IF k \in DOMAIN store' THEN store'[k] ELSE NoRow

\* In this step the request of slot s responded, having run with no statement
\* by anyone else on its key between its SELECT and its response: the step is
\* its SELECT (it returned without an UPDATE) or its UPDATE, and the row it
\* read is the row of the step's first state.
SoloStep(s, op) ==
    /\ req'[s].pc = "done" /\ req'[s].op = op /\ req'[s].race = "solo"
    /\ req'[s].resp.http = 200
    /\ req[s].pc = "update" => req[s].race = "solo"

\* The time at which that request took its decision.
DecisionTime(s) == IF req[s].pc = "update" THEN req[s].t ELSE now

\* Slots a and b hold two requests on one key that ran concurrently (each
\* between the other's SELECT and UPDATE, or one wholly inside the other),
\* with no other statement on the key, and both have responded.
RacedPair(a, b) ==
    /\ Mutual(req, a, b)
    /\ req[a].pc = "done" /\ req[b].pc = "done"

RespMismatchActivate == Resp(200, FALSE, "already_bound_to_other_device")

\* ------------------------------------------------------------------ claims

\* C1: two activate requests with different device ids that run concurrently
\* on the same active, unbound, unexpired license: exactly one returns
\* success, the other the device-mismatch rejection, and the stored device_id
\* is the winner's.
C1_ExactlyOneActivates ==
    \A a \in Slots, b \in Slots :
        ( /\ RacedPair(a, b)
          /\ req[a].op = "activate" /\ req[b].op = "activate"
          /\ req[a].device_id # req[b].device_id
          /\ \A x \in {a, b} :
                /\ req[x].license_info.status = "active"
                /\ req[x].license_info.device_id = NULL
                /\ ~Expired(req[x].license_info, req[x].t) )
        => \E w \in {a, b} : \E l \in {a, b} \ {w} :
                /\ req[w].resp.ok
                /\ req[l].resp = RespMismatchActivate
                /\ SelectRow(req[w].key).device_id = req[w].device_id

\* One request run alone on `row`: the row after it and its response.  The
\* request decides at its own decision time and writes at its own write time.
RunAlone(row, r) ==
    LET d == Decide(r.op, row, r.device_id, r.t)
    IN  [row |-> IF row = NoRow THEN NoRow
                 ELSE ApplyWrite(row, d.write, r.device_id, r.device_info,
                                 IF r.tw = NoTime THEN r.t ELSE r.tw),
         resp |-> d.resp]

\* Requests x then y run one after the other from `row`.
RunInOrder(row, x, y) ==
    LET first == RunAlone(row, x)
        second == RunAlone(first.row, y)
    IN  [row |-> second.row, respx |-> first.resp, respy |-> second.resp]

\* C2: two operations that run concurrently on the same key leave the row and
\* give the responses of running them one after the other in some order.
C2_Serializable ==
    \A a \in Slots, b \in Slots :
        (RacedPair(a, b) /\ req[a].license_info = req[b].license_info)
        => LET row == req[a].license_info
               got == [row |-> SelectRow(req[a].key), respx |-> req[a].resp,
                       respy |-> req[b].resp]
           IN  \/ got = RunInOrder(row, req[a], req[b])
               \/ LET r == RunInOrder(row, req[b], req[a])
                  IN  got = [row |-> r.row, respx |-> r.respy, respy |-> r.respx]

\* C3: a stored status blocked changes only through the admin unblock (or the
\* row is deleted); no client request changes it, also when the request
\* overlaps an admin block.
C3_BlockedLeftOnlyByUnblock ==
    [][\A k \in Keys :
        ( /\ SelectRow(k).status = "blocked"
          /\ SelectRowAfter(k).status # "blocked" )
        => (Unblock(k) \/ Delete(k))]_vars

\* C4: once a stored status is expired, no check, activate, deactivate or
\* heartbeat request changes it: only the admin endpoints do.
C4_ExpiredTerminalForClients ==
    [][\A k \in Keys :
        ( /\ SelectRow(k).status = "expired"
          /\ SelectRowAfter(k).status # "expired" )
        => Admin]_vars

\* C5: in every row device_id, device_info and activated_at are all present
\* or all absent.
C5_BindingAllOrNothing ==
    \A k \in DOMAIN store :
        \/ /\ store[k].device_id = NULL
           /\ store[k].device_info = NULL
           /\ store[k].activated_at = NoTime
        \/ /\ store[k].device_id # NULL
           /\ store[k].device_info # NULL
           /\ store[k].activated_at # NoTime

\* The binding fields and the status of a row.
Bound(row) ==
    <<row.status, row.device_id, row.device_info, row.activated_at>>

\* C6: activations run one after another on an active, unexpired license.
\* An activate by device D when the license is unbound or bound to D succeeds
\* and leaves it bound to D and active (the first activation and every
\* re-activation); an activate by D2 when it is bound to D1 # D2 returns the
\* device-mismatch rejection and leaves the row unchanged.
C6_ActivateThenMismatch ==
    [][\A s \in Slots :
        ( /\ SoloStep(s, "activate")
          /\ req'[s].device_id \in Devices
          /\ SelectRow(req'[s].key).status = "active"
          /\ ~Expired(SelectRow(req'[s].key), DecisionTime(s)) )
        => LET before == SelectRow(req'[s].key)
               after == SelectRowAfter(req'[s].key)
           IN  IF before.device_id \in {NULL, req'[s].device_id}
                 THEN /\ req'[s].resp.ok
                      /\ after.device_id = req'[s].device_id
                      /\ after.status = "active"
                 ELSE /\ req'[s].resp = RespMismatchActivate
                      /\ after = before]_vars

\* C6 witness: a license bound to dev1 by an activation has just rejected an
\* activation by dev2 with the device mismatch.
C6_Witness ==
    \E s \in Slots :
        /\ req[s].pc = "done" /\ req[s].op = "activate"
        /\ req[s].device_id = "dev2"
        /\ req[s].resp = RespMismatchActivate
        /\ SelectRow(req[s].key).device_id = "dev1"
        /\ SelectRow(req[s].key).activated_at # NoTime
        /\ SelectRow(req[s].key).status = "active"

\* C7: an activate by the device the license is already bound to, with the
\* same device_info, leaves status, device_id, device_info and activated_at
\* as the first activation left them.
C7_ReactivationChangesNothing ==
    [][\A s \in Slots :
        ( /\ SoloStep(s, "activate")
          /\ req'[s].device_id \in Devices
          /\ SelectRow(req'[s].key).status = "active"
          /\ ~Expired(SelectRow(req'[s].key), DecisionTime(s))
          /\ SelectRow(req'[s].key).device_id = req'[s].device_id
          /\ SelectRow(req'[s].key).device_info = JsonDumps(req'[s].device_info) )
        => Bound(SelectRowAfter(req'[s].key)) = Bound(SelectRow(req'[s].key))]_vars

\* C8: a check of a license that is not blocked and whose expires_at has
\* passed stores status blocked and returns valid:false; a check of a blocked
\* license (every further check) returns valid:false and writes nothing.
C8_CheckBlocksExpiredOnce ==
    [][\A s \in Slots :
        SoloStep(s, "check")
        => LET before == SelectRow(req'[s].key)
               after == SelectRowAfter(req'[s].key)
           IN  /\ ( /\ before # NoRow
                    /\ before.status # "blocked"
                    /\ Expired(before, DecisionTime(s)) )
                  => ( /\ after = SetBlocked(before)
                       /\ ~req'[s].resp.ok
                       /\ req[s].pc = "update" )
               /\ before.status = "blocked"
                  => ( /\ after = before
                       /\ ~req'[s].resp.ok
                       /\ req[s].pc # "update" )]_vars

\* C8 witness: a check has just answered valid:false, without a write, for a
\* license that an earlier check found expired and blocked.
C8_Witness ==
    \E s \in Slots :
        /\ req[s].pc = "done" /\ req[s].op = "check"
        /\ req[s].resp = RespBlocked
        /\ req[s].write = "none"
        /\ SelectRow(req[s].key).status = "blocked"
        /\ Expired(SelectRow(req[s].key), now)

\* C9: an activate of a license that is not blocked and whose expires_at has
\* passed stores status expired, returns success:false and leaves device_id,
\* device_info and activated_at (and every other column) as they were.
C9_ActivateLatchesExpired ==
    [][\A s \in Slots :
        ( /\ SoloStep(s, "activate")
          /\ SelectRow(req'[s].key) # NoRow
          /\ SelectRow(req'[s].key).status # "blocked"
          /\ Expired(SelectRow(req'[s].key), DecisionTime(s)) )
        => /\ SelectRowAfter(req'[s].key) = SetExpired(SelectRow(req'[s].key))
           /\ ~req'[s].resp.ok
           /\ req[s].pc = "update"]_vars

\* C9 witness: an activate has just been refused as expired on a license that
\* is bound, and the row is stored expired with its binding.
C9_Witness ==
    \E s \in Slots :
        /\ req[s].pc = "done" /\ req[s].op = "activate"
        /\ req[s].resp = Resp(200, FALSE, "license_expired")
        /\ SelectRow(req[s].key).status = "expired"
        /\ SelectRow(req[s].key).device_id \in Devices
        /\ SelectRow(req[s].key).activated_at # NoTime

\* C10, as claimed: a deactivate (by a device the comparison lets through) of
\* an active license whose expires_at has passed stores status expired.
C10_DeactivateTakesExpiry ==
    [][\A s \in Slots :
        ( /\ SoloStep(s, "deactivate")
          /\ req'[s].resp.ok
          /\ SelectRow(req'[s].key).status = "active"
          /\ Expired(SelectRow(req'[s].key), DecisionTime(s)) )
        => SelectRowAfter(req'[s].key).status = "expired"]_vars

\* C10, amended: a deactivate of an active license whose expires_at has passed
\* takes no expiry transition: when the license is unbound or bound to the
\* requesting device it returns success and the stored status becomes
\* blocked, the rest of the row unchanged; otherwise it is refused and the
\* row is unchanged.
C10_DeactivateBlocksExpired ==
    [][\A s \in Slots :
        ( /\ SoloStep(s, "deactivate")
          /\ SelectRow(req'[s].key).status = "active"
          /\ Expired(SelectRow(req'[s].key), DecisionTime(s)) )
        => LET before == SelectRow(req'[s].key)
               after == SelectRowAfter(req'[s].key)
           IN  IF ~Truthy(before.device_id) \/ before.device_id = req'[s].device_id
                 THEN req'[s].resp.ok /\ after = SetBlocked(before)
                 ELSE ~req'[s].resp.ok /\ after = before]_vars

\* C10 witness: a deactivate has just succeeded on a license whose expires_at
\* has passed, and the row is stored blocked.
C10_Witness ==
    \E s \in Slots :
        /\ req[s].pc = "done" /\ req[s].op = "deactivate"
        /\ req[s].resp.ok
        /\ SelectRow(req[s].key).status = "blocked"
        /\ Expired(SelectRow(req[s].key), now)

\* C11: a deactivate by device D of a license bound to D returns success:true,
\* stores status blocked and leaves device_id, device_info, activated_at (and
\* every other column) as they were; the admin unbind stores device_id,
\* device_info and activated_at NULL and leaves status (and every other
\* column) as it was.
C11_DeactivateKeepsBindingUnbindKeepsStatus ==
    [][/\ \A s \in Slots :
            ( /\ SoloStep(s, "deactivate")
              /\ req'[s].device_id \in Devices
              /\ SelectRow(req'[s].key).device_id = req'[s].device_id )
            => /\ req'[s].resp.ok
               /\ SelectRowAfter(req'[s].key)
                    = [SelectRow(req'[s].key) EXCEPT !.status = "blocked"]
       /\ \A k \in Keys :
            (Unbind(k) /\ k \in DOMAIN store)
            => SelectRowAfter(k)
                 = [store[k] EXCEPT !.device_id = NULL, !.device_info = NULL,
                                    !.activated_at = NoTime]]_vars

\* C11 witness: a deactivate by the bound device has just succeeded, and the
\* row is stored blocked with its binding.
C11_Witness ==
    \E s \in Slots :
        /\ req[s].pc = "done" /\ req[s].op = "deactivate" /\ req[s].race = "solo"
        /\ req[s].resp.ok
        /\ req[s].device_id \in Devices
        /\ SelectRow(req[s].key).status = "blocked"
        /\ SelectRow(req[s].key).device_id = req[s].device_id
        /\ SelectRow(req[s].key).device_info # NULL
        /\ SelectRow(req[s].key).activated_at # NoTime

RespMismatch == Resp(200, FALSE, "bound_to_other_device")

\* C12: a deactivate of a key that has no row, or of a license bound to a
\* device other than the requesting one, returns success:false and leaves
\* the whole store unchanged.
C12_DeactivateRefused ==
    [][\A s \in Slots :
        ( /\ SoloStep(s, "deactivate")
          /\ \/ SelectRow(req'[s].key) = NoRow
             \/ /\ Truthy(SelectRow(req'[s].key).device_id)
                /\ SelectRow(req'[s].key).device_id # req'[s].device_id )
        => /\ ~req'[s].resp.ok
           /\ store' = store]_vars

\* C12 witness: a deactivate by dev2 of a license bound to dev1 has just been
\* refused with the device mismatch.
C12_Witness ==
    \E s \in Slots :
        /\ req[s].pc = "done" /\ req[s].op = "deactivate" /\ req[s].race = "solo"
        /\ req[s].device_id = "dev2"
        /\ req[s].resp = RespMismatch
        /\ SelectRow(req[s].key).device_id = "dev1"

\* The binding fields of a row.
Binding(row) == <<row.device_id, row.device_info, row.activated_at>>

C14_CheckOutcome ==
    [][\A s \in Slots :
        SoloStep(s, "check")
        => LET before == SelectRow(req'[s].key)
               after == SelectRowAfter(req'[s].key)
           IN  IF \/ before = NoRow
                  \/ before.status = "blocked"
                  \/ /\ Truthy(before.device_id)
                     /\ before.device_id # req'[s].device_id
                 THEN ~req'[s].resp.ok
                 ELSE ~Expired(before, DecisionTime(s))
                      => /\ req'[s].resp.ok
                         /\ req'[s].resp.expires = Isoformat(before.expires_at)
                         /\ req[s].pc = "update"
                         /\ after = [before EXCEPT !.last_check = now]]_vars

\* C14 witness: a check of a license with an expiry date still ahead has just
\* answered valid:true with that date, and last_check is stored.
C14_Witness ==
    \E s \in Slots :
        /\ req[s].pc = "done" /\ req[s].op = "check" /\ req[s].race = "solo"
        /\ req[s].resp.ok
        /\ SelectRow(req[s].key).expires_at # NoTime
        /\ req[s].resp.expires = Isoformat(SelectRow(req[s].key).expires_at)
        /\ SelectRow(req[s].key).last_check = now

\* C15: a check binds nothing.  On an active license without expiry date: if
\* it is unbound, a check with any device id (or none) returns valid:true and
\* leaves it unbound; if it is bound to D1, a check with D1 returns
\* valid:true and a check with any other device id returns valid:false with
\* the device-mismatch message; the binding is as it was in every case.
C15_CheckDoesNotBind ==
    [][\A s \in Slots :
        ( /\ SoloStep(s, "check")
          /\ SelectRow(req'[s].key).status = "active"
          /\ SelectRow(req'[s].key).expires_at = NoTime )
        => LET before == SelectRow(req'[s].key)
               after == SelectRowAfter(req'[s].key)
           IN  /\ Binding(after) = Binding(before)
               /\ IF before.device_id = NULL \/ before.device_id = req'[s].device_id
                     THEN req'[s].resp.ok
                     ELSE req'[s].resp = RespMismatch]_vars

\* C15 witness: a check by dev2 of an active license without expiry date that
\* is bound to dev1 has just been refused with the device mismatch.
C15_Witness ==
    \E s \in Slots :
        /\ req[s].pc = "done" /\ req[s].op = "check" /\ req[s].race = "solo"
        /\ req[s].device_id = "dev2"
        /\ req[s].resp = RespMismatch
        /\ SelectRow(req[s].key).device_id = "dev1"
        /\ SelectRow(req[s].key).status = "active"
        /\ SelectRow(req[s].key).expires_at = NoTime

\* C16: a heartbeat that passes authentication and reaches the store stores
\* heartbeat_last on the row whose key and device_id both equal the
\* request's, and only there; it returns success:true also when no row
\* matched; status, device_id, device_info, activated_at and last_check of
\* every row stay as they were, whatever the license's status.
C16_HeartbeatTouchesOnlyItsRow ==
    [][\A s \in Slots, k \in Keys \cup {NULL}, d \in DeviceIds :
        ( /\ req'[s].op = "heartbeat" /\ req'[s].key = k /\ req'[s].device_id = d
          /\ Heartbeat(s, k, d, now, SECRET_KEY, TRUE) )
        => /\ req'[s].resp.ok /\ req'[s].resp.http = 200
           /\ DOMAIN store' = DOMAIN store
           /\ \A x \in DOMAIN store :
                IF x = k /\ d # NULL /\ store[x].device_id = d
                  THEN store'[x] = [store[x] EXCEPT !.heartbeat_last = now]
                  ELSE store'[x] = store[x]]_vars

\* C16 witness: a heartbeat by the bound device of a blocked license has just
\* been answered, and heartbeat_last is stored.
C16_Witness ==
    \E s \in Slots :
        /\ req[s].pc = "done" /\ req[s].op = "heartbeat"
        /\ req[s].resp.ok
        /\ SelectRow(req[s].key).device_id = req[s].device_id
        /\ SelectRow(req[s].key).status = "blocked"
        /\ SelectRow(req[s].key).heartbeat_last = now

\* The inputs of a heartbeat that passes authentication.
HeartbeatInputs == (Keys \cup {NULL}) \X DeviceIds \X BOOLEAN

\* C17: every heartbeat that passes authentication is answered success:true
\* with status 200, also when the store cannot be reached.
C17_HeartbeatAlwaysSucceeds ==
    [][\A s \in Slots, i \in HeartbeatInputs :
        ( /\ req'[s].op = "heartbeat" /\ req'[s].key = i[1]
          /\ req'[s].device_id = i[2]
          /\ Heartbeat(s, i[1], i[2], now, SECRET_KEY, i[3]) )
        => req'[s].resp = Resp(200, TRUE, "")]_vars

\* What fails the authentication of a request.
AuthFaults == {"stale", "forged"}

\* The step is the handler of `op` in slot s on a request for key k with the
\* given fault, from the device the faulty requests come from.
Handles(s, op, k, fault, db_up) ==
    /\ req'[s].op = op /\ req'[s].key = k
    /\ IF op = "heartbeat"
         THEN Heartbeat(s, k, "dev1", TimestampOf(fault), SecretOf(fault), db_up)
         ELSE Select(s, op, k, "dev1", NULL, TimestampOf(fault), SecretOf(fault),
                     db_up)

\* C18: a check, activate, deactivate or heartbeat request whose timestamp is
\* not fresh or whose signature does not verify is rejected (status 403, no
\* success), whatever the store holds and whether or not it can be reached;
\* no statement is issued and every row is as it was.
C18_UnauthenticatedLeavesStore ==
    [][\A s \in Slots, op \in ClientOps \cup {"heartbeat"}, k \in Keys,
          fault \in AuthFaults, db_up \in BOOLEAN :
        Handles(s, op, k, fault, db_up)
        => /\ req'[s].pc = "done"
           /\ req'[s].resp \in {RespStale, RespBadSignature}
           /\ req'[s].resp.http = 403 /\ ~req'[s].resp.ok
           /\ req'[s].write = "none"
           /\ store' = store]_vars

\* C18 witness: an activate with a forged signature for the key of a stored,
\* unbound license has just been rejected.
C18_Witness ==
    \E s \in Slots :
        /\ req[s].pc = "done" /\ req[s].op = "activate"
        /\ req[s].resp = RespBadSignature
        /\ req[s].key \in DOMAIN store
        /\ store[req[s].key].status = "active"
        /\ store[req[s].key].device_id = NULL

\* C19: for every client operation, the rejection of a stale request and the
\* rejection of a request with a bad signature are one and the same
\* response (status and body).
C19_AuthRejectionsAlike ==
    [][\A s \in Slots, op \in ClientOps \cup {"heartbeat"}, k \in Keys,
          fault \in AuthFaults :
        Handles(s, op, k, fault, TRUE)
        => \A other \in AuthFaults :
             LET data == Payload(op, k, "dev1", NULL, TimestampOf(other))
             IN  req'[s].resp = Rejection(data, Sign(data, SecretOf(other)), TRUE)]_vars

\* A required field is missing from the request of record r.
MissingField(r) ==
    \/ r.key = NULL
    \/ r.device_id = NULL
    \/ r.op = "activate" /\ r.device_info = NULL

\* C20: a client request that lacks a required field is answered with a
\* client error (status 4xx) by its first step, issues no statement and
\* leaves every row as it was.
C20_MissingFieldRejected ==
    [][\A s \in Slots :
        ( /\ req[s].pc # "update"
          /\ req'[s].pc \in {"update", "done"}
          /\ MissingField(req'[s]) )
        => /\ req'[s].pc = "done"
           /\ req'[s].resp.http \in 400..499
           /\ store' = store]_vars

\* The responses with status 200 that refuse a request.
BusinessRejections ==
    {RespNotFound, RespBlocked, RespMismatch, RespMismatchActivate,
     Resp(200, FALSE, "expired_and_blocked"), Resp(200, FALSE, "license_expired")}

\* C21: a check, activate or deactivate that is authentic and names a key
\* but gets no connection to the store is answered with the server error
\* (status 500), which is none of the refusals with status 200; it issues no
\* statement and every row is as it was.
C21_StoreDownIsServerError ==
    [][\A s \in Slots, op \in ClientOps, k \in Keys :
        Handles(s, op, k, "db_down", FALSE)
        => /\ req'[s].pc = "done"
           /\ req'[s].resp = RespServerError
           /\ req'[s].resp.http = 500 /\ ~req'[s].resp.ok
           /\ req'[s].resp \notin BusinessRejections
           /\ req'[s].write = "none"
           /\ store' = store]_vars

\* C21 witness: a check of a stored, active license has just been answered
\* with the server error.
C21_Witness ==
    \E s \in Slots :
        /\ req[s].pc = "done" /\ req[s].op = "check"
        /\ req[s].resp = RespServerError
        /\ req[s].key \in DOMAIN store
        /\ store[req[s].key].status = "active"

\* The slots that hold a call of verify_signature.
Verified == {s \in Slots : req[s].op = "verify_signature"}

OneFieldChanged(d, e) ==
    /\ DOMAIN d = DOMAIN e
    /\ \E f \in (DOMAIN d) \ {"signature"} :
          /\ d[f] # e[f]
          /\ \A g \in (DOMAIN d) \ {f} : d[g] = e[g]

\* C23: when a body verifies against a signature, every body that differs
\* from it in the value of one field other than signature fails against
\* that signature.
C23_AnyFieldChangeInvalidates ==
    \A a \in Verified, b \in Verified :
        ( /\ req[a].result
          /\ req[b].signature = req[a].signature
          /\ OneFieldChanged(req[a].data, req[b].data) )
        => ~req[b].result

\* The fields of a body other than timestamp and nonce.
WithoutTimestampNonce(d) ==
    [f \in (DOMAIN d) \ {"timestamp", "nonce"} |-> d[f]]

\* C24: two bodies that differ only in timestamp and/or nonce (in value or
\* in presence) get the same answer from verify_signature for the same
\* signature.
C24_TimestampNonceUnsigned ==
    \A a \in Verified, b \in Verified :
        ( /\ req[a].signature = req[b].signature
          /\ WithoutTimestampNonce(req[a].data) = WithoutTimestampNonce(req[b].data) )
        => req[a].result = req[b].result

\* C24 witness: two bodies with different timestamps and different nonces
\* have both been accepted with one signature.
C24_Witness ==
    \E a \in Verified, b \in Verified :
        /\ req[a].signature = req[b].signature
        /\ "nonce" \in DOMAIN req[a].data /\ "nonce" \in DOMAIN req[b].data
        /\ req[a].data.timestamp # req[b].data.timestamp
        /\ req[a].data.nonce # req[b].data.nonce
        /\ WithoutTimestampNonce(req[a].data) = WithoutTimestampNonce(req[b].data)
        /\ req[a].result /\ req[b].result

\* C26: check_timestamp returns true exactly when the timestamp is less than
\* 300 seconds from the clock, in the past or in the future; at exactly 300
\* seconds it returns false.
C26_FreshWithin300 ==
    \A s \in Slots :
        req[s].op = "check_timestamp"
        => LET d == now - req[s].timestamp
           IN  /\ req[s].result <=> (-300 < d /\ d < 300)
               /\ d \in {-300, 300} => ~req[s].result

\* C26 witness: a timestamp exactly 300 seconds old has been refused, and
\* one 299 seconds ahead has been accepted.
C26_Witness ==
    \E a \in Slots, b \in Slots :
        /\ req[a].op = "check_timestamp" /\ req[b].op = "check_timestamp"
        /\ now - req[a].timestamp = 300 /\ ~req[a].result
        /\ req[b].timestamp - now = 299 /\ req[b].result

\* C25: a request derived from one captured 300 seconds ago or earlier (the
\* captured body with any field rewritten, presented with the captured
\* signature by a party that does not hold the secret) is rejected by every
\* client operation.  Here the derived request is the captured body with its
\* timestamp set to the present time.
C25_ReplayEndsAfterWindow ==
    [][\A s \in Slots, op \in ClientOps \cup {"heartbeat"}, k \in Keys :
        LET captured == Payload(op, k, "dev1", NULL, now - Tolerance)
            sig == Sign(captured, SECRET_KEY)
            derived == [captured EXCEPT !.timestamp = now]
        IN  ( /\ ~check_timestamp(captured.timestamp, now)
              /\ verify_signature(derived, sig)
              /\ Sign(derived, SECRET_KEY) = sig
              /\ Handles(s, op, k, "none", TRUE) )
            => req'[s].resp.http = 403]_vars

\* C27: the set of stored keys changes only in a step of the admin generate
\* or the admin delete; no check, activate, deactivate or heartbeat creates
\* or removes a row, also when its UPDATE finds the row gone.
C27_RowsComeAndGoByAdminOnly ==
    [][DOMAIN store' # DOMAIN store
       => \E k \in Keys :
            \/ Delete(k)
            \/ \E days \in DaysChoices : Generate(k, days)]_vars

\* C27 witness: a client request has run its UPDATE after the row it had
\* read was deleted, and the key has no row.
C27_Witness ==
    \E s \in Slots :
        /\ req[s].pc = "done" /\ req[s].op \in ClientOps
        /\ req[s].write # "none"
        /\ req[s].key \notin DOMAIN store

\* C28: the stored status of every license is active, blocked or expired.
C28_StatusDomain ==
    \A k \in DOMAIN store : store[k].status \in {"active", "blocked", "expired"}

\* C28 witness: a license is stored expired.
C28_Witness == \E k \in DOMAIN store : store[k].status = "expired"

\* The step is an operation on key x: the UPDATE of a client request for x,
\* a heartbeat for x, or an admin endpoint called with x.
OperationOn(x) ==
    \/ \E s \in Slots : req[s].pc = "update" /\ req[s].key = x /\ Update(s)
    \/ \E s \in Slots :
          /\ req'[s].op = "heartbeat" /\ req'[s].key = x
          /\ Heartbeat(s, x, req'[s].device_id, now, SECRET_KEY, TRUE)
    \/ \E days \in DaysChoices : Generate(x, days)
    \/ Block(x) \/ Unblock(x) \/ Unbind(x) \/ Delete(x)

\* The statements a client request may issue.
ClientStatements == {"block", "expire", "bind", "last_check", "heartbeat"}

\* The table after the client statement `st` for key k and device `d`.
Statement(table, st, k, d) ==
    IF st = "heartbeat" THEN HeartbeatTable(table, k, d, now)
    ELSE UpdateWhereKey(table, k, st, d, "host1", now)

\* C29: a row changes only in a step that is an operation on its own key
\* (client or admin); and the statements of two client requests on different
\* keys commute: in either order they leave the same table, and neither
\* changes the row the other reads, so the responses do not depend on the
\* order.
C29_KeysIndependent ==
    /\ [][\A x \in TwoKeys :
            SelectRowAfter(x) # SelectRow(x) => OperationOn(x)]_vars
    /\ [](\A k1 \in TwoKeys, k2 \in TwoKeys,
             s1 \in ClientStatements, s2 \in ClientStatements, d \in Devices :
            k1 # k2 =>
            LET one == Statement(store, s1, k1, d)
                other == Statement(store, s2, k2, "dev1")
            IN  /\ Statement(one, s2, k2, "dev1") = Statement(other, s1, k1, d)
                /\ k2 \in DOMAIN store => one[k2] = store[k2]
                /\ DOMAIN one = DOMAIN store)

\* C29 witness: two licenses are bound to the same device, and a heartbeat
\* for one of them has just stored heartbeat_last on it and not on the other.
C29_Witness ==
    \E s \in Slots, x \in TwoKeys, y \in TwoKeys :
        /\ x # y /\ {x, y} \subseteq DOMAIN store
        /\ req[s].pc = "done" /\ req[s].op = "heartbeat" /\ req[s].key = x
        /\ store[x].device_id = req[s].device_id
        /\ store[y].device_id = req[s].device_id
        /\ store[x].heartbeat_last # NoTime
        /\ store[y].heartbeat_last = NoTime

\* The row after the whole UPDATE of the request of record r, written out
\* column by column.
WholeUpdate(row, r) ==
    CASE r.write = "bind" ->
            [row EXCEPT !.device_id = r.device_id,
                        !.device_info = JsonDumps(r.device_info),
                        !.activated_at = now,
                        !.status = "active"]
      [] r.write = "block" -> [row EXCEPT !.status = "blocked"]
      [] r.write = "expire" -> [row EXCEPT !.status = "expired"]
      [] r.write = "last_check" -> [row EXCEPT !.last_check = now]
      [] OTHER -> row

\* C30: a client request writes in at most one step: its first step (up to
\* the SELECT) changes no row, and the step in which it ends, by its UPDATE
\* and commit or cut short, leaves its row either as it was or with every
\* column of its UPDATE stored, and changes no other row.
C30_UpdateWholeOrNothing ==
    [][\A s \in Slots :
        /\ ( /\ req[s].pc # "update"
             /\ req'[s].pc \in {"update", "done"}
             /\ req'[s].op \in ClientOps )
           => store' = store
        /\ (req[s].pc = "update" /\ req'[s].pc # "update")
           => /\ DOMAIN store' = DOMAIN store
              /\ \A k \in DOMAIN store :
                   \/ store'[k] = store[k]
                   \/ k = req[s].key /\ store'[k] = WholeUpdate(store[k], req[s])]_vars

\* C30 witness: an activate has just been cut short before its UPDATE was
\* committed, and the license it read is still unbound.
C30_Witness ==
    \E s \in Slots :
        /\ req[s].pc = "done" /\ req[s].op = "activate"
        /\ req[s].write = "bind"
        /\ req[s].resp = RespServerError
        /\ req[s].key \in DOMAIN store
        /\ Binding(store[req[s].key]) = <<NULL, NULL, NoTime>>

\* C31: the admin overrides are unconditional. Whatever the stored status,
\* block stores blocked, unblock stores active (an expired license too) and
\* unbind clears device_id, device_info and activated_at; block and unblock
\* leave every other column, the binding included, as it was, and unbind
\* leaves the status as it was.
C31_AdminOverridesUnconditional ==
    [][\A k \in Keys :
        k \in DOMAIN store =>
          /\ Block(k) =>
                SelectRowAfter(k) = [store[k] EXCEPT !.status = "blocked"]
          /\ Unblock(k) =>
                SelectRowAfter(k) = [store[k] EXCEPT !.status = "active"]
          /\ Unbind(k) =>
                SelectRowAfter(k) = [store[k] EXCEPT !.device_id = NULL,
                                                     !.device_info = NULL,
                                                     !.activated_at = NoTime]]_vars

\* C31 witness: an activate read a license that was not blocked and is about
\* to bind it, and the license is blocked now: with one client request in
\* progress only the admin block stores that.
C31_Witness ==
    \E s \in Slots :
        /\ req[s].pc = "update" /\ req[s].op = "activate"
        /\ req[s].write = "bind" /\ req[s].race = "spoiled"
        /\ req[s].key \in DOMAIN store
        /\ store[req[s].key].status = "blocked"

\* C32: a license that generate creates starts with status active and with
\* device_id, device_info and activated_at all absent.
C32_GeneratedStartsActiveUnbound ==
    [][\A k \in Keys, days \in DaysChoices :
        (k \notin DOMAIN store /\ k \in DOMAIN store' /\ Generate(k, days))
          => /\ store'[k].status = "active"
             /\ store'[k].device_id = NULL
             /\ store'[k].device_info = NULL
             /\ store'[k].activated_at = NoTime]_vars

\* C32 witness: a license made at this instant with a limited term, which no
\* request has touched since.
C32_Witness ==
    \E k \in DOMAIN store :
        /\ store[k].created_at = now /\ now > StartTime
        /\ store[k].expires_at = now + 1
        /\ store[k].status = "active"
        /\ store[k].last_check = NoTime /\ store[k].heartbeat_last = NoTime
        /\ Binding(store[k]) = <<NULL, NULL, NoTime>>

\* C33: once a row is created, no client or admin operation other than delete
\* changes its key, created_at or expires_at: a row that is there before and
\* after a step keeps its created_at and expires_at under the same key, and a
\* row goes away only by the admin delete of its key.
C33_KeyCreatedExpiresFixed ==
    [][\A k \in DOMAIN store :
        IF k \in DOMAIN store'
            THEN /\ store'[k].created_at = store[k].created_at
                 /\ store'[k].expires_at = store[k].expires_at
            ELSE Delete(k)]_vars

\* C33 witness: a license created earlier, with a limited term, has been
\* activated at this instant, then checked, blocked and kept alive.
C33_Witness ==
    \E k \in DOMAIN store :
        /\ store[k].created_at < now
        /\ store[k].expires_at # NoTime
        /\ store[k].activated_at = now
        /\ store[k].last_check = now
        /\ store[k].heartbeat_last = now
        /\ store[k].status = "blocked"

\* C34: every received client request eventually gets a response when the
\* request steps are scheduled fairly: a request that has done its SELECT and
\* is still to write and respond does respond, whatever the other request
\* and the admin endpoints do meanwhile (a request that stops before the
\* UPDATE responds in the step that receives it).
C34_EveryRequestAnswered ==
    \A s \in Slots : (req[s].pc = "update") ~> (req[s].pc = "done")

\* C34 witness: two requests on one key are both between SELECT and UPDATE.
C34_Witness ==
    /\ req[1].pc = "update" /\ req[2].pc = "update"
    /\ req[1].key = req[2].key
    /\ req[1].op = "activate" /\ req[2].op = "deactivate"

\* C35: neither check nor activate reports success for a license whose
\* expires_at is earlier than the time of the request, whatever the stored
\* status (an expired license that the admin unblock set back to active
\* included) and whatever runs between the request's SELECT and its UPDATE:
\* the response is settled from the row the SELECT returns, at the time of
\* the SELECT, and the UPDATE step sends it as settled.
C35_NoSuccessPastExpiry ==
    [][\A s \in Slots :
        /\ ( /\ req[s].pc # "update"
             /\ req'[s].pc \in {"update", "done"}
             /\ req'[s].op \in {"check", "activate"}
             /\ SelectRow(req'[s].key).expires_at # NoTime
             /\ SelectRow(req'[s].key).expires_at < now )
           => ~req'[s].resp.ok
        /\ (req[s].pc = "update" /\ req'[s].pc = "done")
           => req'[s].resp = req[s].resp]_vars

\* C35 witness: a check of a license whose expires_at has passed and whose
\* stored status is active has been refused and is about to store blocked.
C35_Witness ==
    \E s \in Slots :
        /\ req[s].pc = "update" /\ req[s].op = "check"
        /\ req[s].write = "block" /\ ~req[s].resp.ok
        /\ req[s].t = now
        /\ SelectRow(req[s].key).status = "active"
        /\ SelectRow(req[s].key).expires_at < now
        /\ SelectRow(req[s].key).expires_at # NoTime

\* C36: deactivate is guarded by the device comparison alone. On a license
\* with no device bound it succeeds for any device id (a missing one too),
\* and on a license bound to the requester as well; this holds whatever the
\* stored status, so also when the license is already blocked or expired: the
\* response is success:true and the row is stored with status blocked, every
\* other column as it was.
C36_DeactivateGuardedByDeviceOnly ==
    [][\A s \in Slots :
        ( /\ SoloStep(s, "deactivate")
          /\ SelectRow(req'[s].key) # NoRow
          /\ \/ SelectRow(req'[s].key).device_id = NULL
             \/ SelectRow(req'[s].key).device_id = req'[s].device_id )
        => /\ req'[s].resp = Resp(200, TRUE, "key_blocked")
           /\ SelectRowAfter(req'[s].key).status = "blocked"
           /\ \E st \in {"active", "blocked", "expired"} :
                [SelectRowAfter(req'[s].key) EXCEPT !.status = st]
                    = SelectRow(req'[s].key)]_vars

\* C36 witness: a deactivate by some device of a license that is already
\* blocked and has no device bound has been granted and is about to store
\* blocked again.
C36_Witness ==
    \E s \in Slots :
        /\ req[s].pc = "update" /\ req[s].op = "deactivate"
        /\ req[s].race = "solo" /\ req[s].write = "block"
        /\ req[s].resp.ok
        /\ req[s].device_id = "dev2"
        /\ SelectRow(req[s].key).status = "blocked"
        /\ SelectRow(req[s].key).device_id = NULL

\* C37: a stored device_id that is absent or the empty text does not protect
\* the binding. An activate of a license that is neither blocked nor past its
\* term and whose stored device_id is absent or empty returns success:true
\* and stores the request's device_id (absent or empty when the request has
\* none), its device_info and activated_at with status active; so after an
\* activate without a device id, an activate by any device D succeeds and
\* binds D with no unbind in between.
C37_BlankDeviceIdDoesNotBind ==
    [][\A s \in Slots :
        ( /\ SoloStep(s, "activate")
          /\ SelectRow(req'[s].key) # NoRow
          /\ SelectRow(req'[s].key).status # "blocked"
          /\ ~Expired(SelectRow(req'[s].key), DecisionTime(s))
          /\ SelectRow(req'[s].key).device_id \in {NULL, ""} )
        => /\ req'[s].resp = Resp(200, TRUE, "key_activated")
           /\ SelectRowAfter(req'[s].key)
                = [SelectRow(req'[s].key) EXCEPT
                      !.device_id = req'[s].device_id,
                      !.device_info = JsonDumps(req'[s].device_info),
                      !.activated_at = now,
                      !.status = "active"]]_vars

\* C37 witness: a license was activated with the empty text as device id, and
\* an activate by dev1 has been granted on it and is about to bind dev1.
C37_Witness ==
    \E s \in Slots :
        /\ req[s].pc = "update" /\ req[s].op = "activate"
        /\ req[s].race = "solo" /\ req[s].write = "bind"
        /\ req[s].device_id = "dev1"
        /\ req[s].resp.ok
        /\ SelectRow(req[s].key).device_id = ""
        /\ SelectRow(req[s].key).device_info # NULL
        /\ SelectRow(req[s].key).activated_at # NoTime

\* C38: with the requests run one after the other, a successful deactivate
\* by device D of a license bound to D leaves it blocked and bound to D; on
\* a blocked license every check and every activate is refused as blocked
\* and changes nothing in the store; a blocked license stays blocked until
\* the admin unblock (or until it is deleted); and the unblock stores active
\* and leaves the binding as it was, so the license is still bound to D.
C38_BlockedUntilUnblockStillBound ==
    [][/\ \A s \in Slots :
            /\ ( /\ SoloStep(s, "deactivate")
                 /\ req'[s].device_id \in Devices
                 /\ SelectRow(req'[s].key).device_id = req'[s].device_id )
               => /\ req'[s].resp.ok
                  /\ SelectRowAfter(req'[s].key).status = "blocked"
                  /\ Binding(SelectRowAfter(req'[s].key))
                        = Binding(SelectRow(req'[s].key))
            /\ ( /\ req'[s].op \in {"check", "activate"}
                 /\ SoloStep(s, req'[s].op)
                 /\ SelectRow(req'[s].key).status = "blocked" )
               => /\ req'[s].resp = RespBlocked
                  /\ store' = store
       /\ \A k \in DOMAIN store :
            /\ ( /\ store[k].status = "blocked"
                 /\ SelectRowAfter(k).status # "blocked" )
               => \/ Unblock(k)
                  \/ Delete(k)
                  \/ \E s \in Slots : /\ req[s].pc = "update"
                                      /\ req[s].race # "solo"
                                      /\ req'[s].pc = "done"
            /\ (Unblock(k) /\ store[k].status = "blocked")
               => /\ SelectRowAfter(k).status = "active"
                  /\ Binding(SelectRowAfter(k)) = Binding(store[k])]_vars

\* C38 witness: the device a blocked license is bound to has just asked to
\* activate it again and was refused as blocked; the binding is in place.
C38_Witness ==
    \E s \in Slots :
        /\ req[s].pc = "done" /\ req[s].op = "activate" /\ req[s].race = "solo"
        /\ req[s].resp = RespBlocked
        /\ req[s].device_id \in Devices
        /\ SelectRow(req[s].key).status = "blocked"
        /\ Binding(SelectRow(req[s].key))
              = <<req[s].device_id, JsonDumps("host1"), now>>

\* The client of a request passes the whitelist.
Whitelisted(hdr) == AddrText(ClientAddress(hdr)) \in ADMIN_WHITELIST

\* C39: a request to generate, list, block, unblock, unbind or delete changes
\* the store only when its session has admin_logged_in set and its client
\* passes the IP whitelist; admin_logged_in gets set only by a login POST with
\* the correct password (from a whitelisted client); logout clears it, and
\* an admin request of a session without it is redirected to login (when the
\* client passes the whitelist; refused with 403 otherwise) and changes
\* nothing in the store.
C39_AdminBehindLoginAndWhitelist ==
    [][\A s \in Slots :
        /\ req'[s].route \in AdminRoutes
           => \A key \in Keys, days \in DaysChoices, hdr \in Headers :
                AdminRequest(s, req'[s].route, key, days, hdr)
                => /\ store' # store
                        => /\ "admin_logged_in" \in req[s].session
                           /\ Whitelisted(hdr)
                   /\ "admin_logged_in" \notin req[s].session
                        => /\ store' = store
                           /\ req'[s].resp
                                = IF Whitelisted(hdr) THEN RedirectLogin
                                                      ELSE Forbidden
        /\ ( /\ "admin_logged_in" \notin req[s].session
             /\ "admin_logged_in" \in req'[s].session )
           => \E hdr \in Headers :
                 /\ Whitelisted(hdr)
                 /\ Login(s, "POST", ADMIN_PASSWORD, hdr)
        /\ (req'[s].route = "logout" /\ Logout(s))
           => "admin_logged_in" \notin req'[s].session]_vars

\* C39 witness: a browser logged in, made a license, logged out and then
\* asked to block: it was redirected to login and the license is not blocked;
\* the other browser is not logged in.
C39_Witness ==
    \E s \in Slots :
        /\ req[s].pc = "session"
        /\ req[s].session = {}
        /\ req[s].route = "block" /\ req[s].resp = RedirectLogin
        /\ \A o \in Slots \ {s} : req[o] = NewSession
        /\ \E k \in DOMAIN store : store[k].status = "active"

====
